---------------------------- MODULE Spec2Model ----------------------------
(***************************************************************************)
(* caddy-ratelimit: the sliding-window limiter of src/ratelimit.go and the *)
(* counter store of src/request_count_tracker.go (the RWMutex version,     *)
(* lines 1-49).                                                            *)
(*                                                                         *)
(* Time is a global integer clock `now` that Tick advances; every          *)
(* time.Now() of the code is one read of it, so the clock may advance      *)
(* between any two reads.  Trackers live in a heap `tr` indexed by         *)
(* allocation number; 0 is the nil pointer.  Strings are sequences of      *)
(* one-character strings.                                                  *)
(*                                                                         *)
(* The critical sections of addRequestFor and getRequestCountFor touch     *)
(* nothing but the tracker they lock, so each is one step in the           *)
(* specifications of the limiter; SpecTracker takes them statement by      *)
(* statement.  A tracker without a mutex (the zero value) makes            *)
(* Lock/RLock panic.                                                       *)
(***************************************************************************)
EXTENDS Integers, Sequences, FiniteSets, TLC

VARIABLES
    now,    \* the wall clock read by time.Now()
    rl,     \* the RateLimit struct
    tr,     \* heap of RequestCountTracker values, by pointer
    main,   \* the goroutine calling Provision
    sched,  \* the goroutine spawned by Provision
    th,     \* the goroutines serving requests
    calls,  \* number of ServeHTTP calls started so far
    admitted, \* history: per key, the calls requestShouldBlock let through
              \* at each of the last WindowLength clock values, newest first
    mu      \* who holds the RWMutex of the tracker whose critical sections
            \* are taken statement by statement (SpecTracker)

vars == <<now, rl, tr, main, sched, th, calls, admitted, mu>>

-----------------------------------------------------------------------------
(* Bounds *)

MaxTime == 3

MaxCalls == 2
\* The clock stops here in the specification without traffic.
MaxTimeIdle == 6
\* addRequestFor calls per goroutine in the specification of one tracker.
AddsEach == 2

Threads == {"g1", "g2"}

-----------------------------------------------------------------------------
(* Values *)

Nil == 0

ZeroTime == -1

NoKey == <<>>

\* Requests offered to ServeHTTP: the remote address and the value of the
\* configured header (empty when the header is absent).
Requests ==
    { [RemoteAddr |-> <<"a", ":", "1">>, Header |-> <<>>],
      [RemoteAddr |-> <<"a", ":", "2">>, Header |-> <<"b">>],
      [RemoteAddr |-> <<"b">>,           Header |-> <<"a">>] }

\* Counts a window may hold for a key when a call is studied on its own,
\* and the configurations of such a limiter (values of the package tests).
CountSamples == {0, 1, 2, 3, 50, 99, 100}

\* A count of the other key, so that a read of the wrong key shows.
OtherCount == 7

CallConfigs ==
    { [ByHeader |-> <<>>, WindowLength |-> 2, MaxRequests |-> 1],
      [ByHeader |-> <<>>, WindowLength |-> 4, MaxRequests |-> 50],
      [ByHeader |-> <<>>, WindowLength |-> 4, MaxRequests |-> 76],
      [ByHeader |-> <<>>, WindowLength |-> 4, MaxRequests |-> 200],
      [ByHeader |-> <<"H">>, WindowLength |-> 2, MaxRequests |-> 1] }

\* Configurations loaded into the struct before Provision.
Configs ==
    { [ByHeader |-> <<>>,      WindowLength |-> 1, MaxRequests |-> 1],
      [ByHeader |-> <<"H">>,   WindowLength |-> 2, MaxRequests |-> 2] }

-----------------------------------------------------------------------------
(* request_count_tracker.go *)

\* m[key] of a Go map: the zero value when the key is absent (also for a
\* nil map).
MapGet(m, key) == IF key \in DOMAIN m THEN m[key] ELSE 0

\* Mutant of MapSet: the map is replaced by one holding the key alone.
MapOnly(m, key, v) == [k \in {key} |-> v]

MapSet(m, key, v) == [k \in DOMAIN m \cup {key} |-> IF k = key THEN v ELSE m[k]]

\* newRequestCountTracker: the two fields read the clock separately.
newRequestCountTracker(windowLength, t1, t2) ==
    [ requestCount |-> <<>>,
      startTime    |-> t1,
      endTime      |-> t2 + windowLength,
      mutex        |-> TRUE ]

\* &RequestCountTracker{}: nil map, zero times, nil mutex.
zeroRequestCountTracker ==
    [ requestCount |-> <<>>,
      startTime    |-> ZeroTime,
      endTime      |-> ZeroTime,
      mutex        |-> FALSE ]

\* Lock/RLock on a nil *sync.RWMutex dereferences nil.
lockPanics(t) == ~ t.mutex

\* A sync.RWMutex nobody holds.
Unlocked == [writer |-> "none", readers |-> {}]

\* Mutant of canLock: the tracker without a mutex (the older version of
\* request_count_tracker.go), where nothing keeps a second goroutine out.
canEnter(m) == TRUE

\* Lock() returns only when no writer and no reader holds the mutex.
canLock(m) == m.writer = "none" /\ m.readers = {}

\* RLock() returns only when no writer holds the mutex.
canRLock(m) == m.writer = "none"

\* Mutant of afterUnlock: addRequestFor returning without Unlock.
stillLocked(m) == m

\* The mutex after Unlock().
afterUnlock(m) == [m EXCEPT !.writer = "none"]

\* Mutant of addRequestFor: the count is set, not raised.
addRequestForFirst(t, key) ==
    [t EXCEPT !.requestCount = MapSet(@, key, 1)]

addRequestFor(t, key) ==
    [t EXCEPT !.requestCount = MapSet(@, key, MapGet(@, key) + 1)]

getRequestCountFor(t, key) == MapGet(t.requestCount, key)

-----------------------------------------------------------------------------
(* ratelimit.go: pure parts *)

windowDuration == rl.WindowLength

isByHost == Len(rl.ByHeader) = 0

\* Mutant of headerMissing: the request is keyed by whatever the header
\* holds, the empty string too.
headerNeverMissing(header) == FALSE

\* 0 == len(header), for header := r.Header.Get(rl.ByHeader)
headerMissing(header) == Len(header) = 0

Abs(x) == IF x < 0 THEN -x ELSE x

\* Mutant of Round: int64(n / d) without math.Round (truncation).
RoundTruncated(n, d) ==
    IF n >= 0 THEN n \div d ELSE -((-n) \div d)

\* int64(math.Round(n / d)) for d > 0: half away from zero.
Round(n, d) ==
    IF n >= 0 THEN (2 * n + d) \div (2 * d)
              ELSE -((2 * (-n) + d) \div (2 * d))

\* strings.LastIndex(s, ":"), 0-based, -1 when absent.
LastIndex(s, c) ==
    LET hits == {i \in 1..Len(s) : s[i] = c}
    IN  IF hits = {} THEN -1
        ELSE (CHOOSE i \in hits : \A j \in hits : j <= i) - 1

\* The key ServeHTTP derives in host mode: RemoteAddr up to the last colon.
remoteIP(addr) ==
    LET idx == LastIndex(addr, ":")
    IN  IF idx > -1 THEN SubSeq(addr, 1, idx) ELSE addr

\* Every key a request of Requests can be counted under.
AllKeys ==
    ({remoteIP(r.RemoteAddr) : r \in Requests} \cup {r.Header : r \in Requests})
        \ {<<>>}

\* currentWindowFraction = elapsed / windowLength; previousWindowFraction
\* = 1 - currentWindowFraction = (windowLength - elapsed) / windowLength.
\* Both are kept as exact fractions over windowLength.
currentWindowPart(count, elapsed, windowLength) ==
    Round(count * elapsed, windowLength)

previousWindowPart(count, elapsed, windowLength) ==
    Round(count * (windowLength - elapsed), windowLength)

\* Mutant of exceedsLimit: >= in place of >.
exceedsLimitOrEqual(requestCount, maxRequests) == requestCount >= maxRequests

\* rl.getInterpolatedRequestCount(key) > rl.MaxRequests
exceedsLimit(requestCount, maxRequests) == requestCount > maxRequests

\* Mutant of notProvisioned: Provision without its guard.
provisionAnyway(currentWindow) == TRUE

\* nil == rl.currentWindow
notProvisioned(currentWindow) == currentWindow = Nil

\* Mutant of sleepDuration: a whole window length, whatever is left of the
\* current window.
sleepWholeWindow(t, nowT) == rl.WindowLength

\* rl.currentWindow.endTime.Sub(time.Now())
sleepDuration(t, nowT) == t.endTime - nowT

\* Mutant of windowExpired: After in place of Before.
windowNotExpired(t, nowT) == t.endTime > nowT

\* rl.currentWindow.endTime.Before(time.Now())
windowExpired(t, nowT) == t.endTime < nowT

-----------------------------------------------------------------------------
(* State *)

IdleThread ==
    [ pc          |-> "idle",
      key         |-> NoKey,
      cur         |-> Nil,     \* currentWindow of the receiver copy
      prev        |-> Nil,     \* previousWindow of the receiver copy
      nowRead     |-> 0,       \* `now` of getInterpolatedRequestCount
      requestCount|-> 0,       \* the named result being accumulated
      shouldBlock |-> FALSE,
      status      |-> 0,       \* status code written by this middleware
      nextCalled  |-> FALSE ]

\* A request goroutine that died in a nil dereference (net/http recovers
\* the panic and drops the connection).
Panicked == [IdleThread EXCEPT !.pc = "panic"]

Init ==
    /\ now = 0
    /\ \E c \in Configs :
         /\ rl = [ ByHeader       |-> c.ByHeader,
                   WindowLength   |-> c.WindowLength,
                   MaxRequests    |-> c.MaxRequests,
                   currentWindow  |-> Nil,
                   previousWindow |-> Nil ]
         /\ admitted = [k \in AllKeys |-> [i \in 1..c.WindowLength |-> 0]]
    /\ tr = <<>>
    /\ main = [pc |-> "start", t1 |-> 0]
    /\ sched = [pc |-> "none", wakeAt |-> 0, t1 |-> 0, didRefresh |-> FALSE]
    /\ th = [g \in Threads |-> IdleThread]
    /\ calls = 0
    /\ mu = Unlocked

\* The next free pointer.
NewPtr == Len(tr) + 1

-----------------------------------------------------------------------------
(* The clock *)

\* The clock's origin is the instant of the first Provision call.
Advance(limit) ==
    /\ main.pc # "start"
    /\ now < limit
    /\ now' = now + 1
    /\ admitted' = [k \in AllKeys |->
                      [i \in 1..windowDuration |->
                         IF i = 1 THEN 0 ELSE admitted[k][i - 1]]]
    /\ UNCHANGED <<mu, rl, tr, main, sched, th, calls>>

Tick == Advance(MaxTime)

-----------------------------------------------------------------------------
(* Provision *)

\* Provision: nil == rl.currentWindow, and the first time.Now() of
\* newRequestCountTracker; a call on a provisioned limiter returns at once.
ProvisionCall ==
    /\ main.pc \in {"start", "done"}
    /\ IF notProvisioned(rl.currentWindow)
       THEN main' = [pc |-> "new", t1 |-> now]
       ELSE main' = [pc |-> "done", t1 |-> 0]
    /\ UNCHANGED <<mu, now, rl, tr, sched, th, calls, admitted>>

\* The second time.Now(), both assignments, and the go statement.
ProvisionFinish ==
    /\ main.pc = "new"
    /\ tr' = tr \o << zeroRequestCountTracker,
                      newRequestCountTracker(windowDuration, main.t1, now) >>
    /\ rl' = [rl EXCEPT !.currentWindow = NewPtr + 1, !.previousWindow = NewPtr]
    /\ sched' = [sched EXCEPT !.pc = "sleep"]
    /\ main' = [pc |-> "done", t1 |-> 0]
    /\ UNCHANGED <<mu, now, th, calls, admitted>>

-----------------------------------------------------------------------------
(* The goroutine of Provision: for { time.Sleep(...); rl.refreshWindows() } *)

\* time.Sleep(rl.currentWindow.endTime.Sub(time.Now())) is entered: the
\* goroutine will wake no earlier than now + d.
SchedSleep ==
    /\ sched.pc = "sleep"
    /\ sched' = [sched EXCEPT !.pc = "sleeping",
                              !.wakeAt = now + sleepDuration(tr[rl.currentWindow], now)]
    /\ UNCHANGED <<mu, now, rl, tr, main, th, calls, admitted>>

SchedWake ==
    /\ sched.pc = "sleeping"
    /\ now >= sched.wakeAt
    /\ sched' = [sched EXCEPT !.pc = "refresh"]
    /\ UNCHANGED <<mu, now, rl, tr, main, th, calls, admitted>>

\* refreshWindows: the test of the if.
RefreshCheck ==
    /\ sched.pc = "refresh"
    /\ IF windowExpired(tr[rl.currentWindow], now)
       THEN sched' = [sched EXCEPT !.pc = "swap"]
       ELSE sched' = [sched EXCEPT !.pc = "sleep", !.didRefresh = FALSE]
    /\ UNCHANGED <<mu, now, rl, tr, main, th, calls, admitted>>

\* rl.previousWindow = rl.currentWindow
RefreshSwap ==
    /\ sched.pc = "swap"
    /\ rl' = [rl EXCEPT !.previousWindow = rl.currentWindow]
    /\ sched' = [sched EXCEPT !.pc = "new1"]
    /\ UNCHANGED <<mu, now, tr, main, th, calls, admitted>>

\* newRequestCountTracker: startTime: time.Now()
RefreshNewStart ==
    /\ sched.pc = "new1"
    /\ sched' = [sched EXCEPT !.pc = "new2", !.t1 = now]
    /\ UNCHANGED <<mu, now, rl, tr, main, th, calls, admitted>>

\* newRequestCountTracker: endTime: time.Now().Add(windowLength); then
\* rl.currentWindow = <the new tracker>; didRefresh = true; return.
RefreshNewEnd ==
    /\ sched.pc = "new2"
    /\ tr' = Append(tr, newRequestCountTracker(windowDuration, sched.t1, now))
    /\ rl' = [rl EXCEPT !.currentWindow = NewPtr]
    /\ sched' = [sched EXCEPT !.pc = "sleep", !.t1 = 0, !.didRefresh = TRUE]
    /\ UNCHANGED <<mu, now, main, th, calls, admitted>>

Scheduler ==
    \/ SchedSleep
    \/ SchedWake
    \/ RefreshCheck
    \/ RefreshSwap
    \/ RefreshNewStart
    \/ RefreshNewEnd

-----------------------------------------------------------------------------
(* ServeHTTP, one goroutine per request *)

\* ServeHTTP has a value receiver: the call copies the RateLimit struct
\* while the scheduler may be writing its two pointers.  The copy is two
\* unsynchronised reads, in either order; `first` is the field read first.
ServeHTTPCall(g, first) ==
    /\ th[g].pc \in {"idle", "done", "panic"}
    /\ rl.currentWindow # Nil
    /\ calls < MaxCalls
    /\ calls' = calls + 1
    /\ th' = [th EXCEPT ![g] =
                IF first = "currentWindow"
                THEN [IdleThread EXCEPT !.pc = "copy", !.cur = rl.currentWindow]
                ELSE [IdleThread EXCEPT !.pc = "copy", !.prev = rl.previousWindow]]
    /\ UNCHANGED <<mu, now, rl, tr, main, sched, admitted>>

\* The rest of the copy, then the key: the remote address without its port,
\* or the header; a request without the header goes straight to next.
ServeHTTPKey(g, r) ==
    /\ th[g].pc = "copy"
    /\ LET me  == [th[g] EXCEPT
                      !.cur  = IF @ = Nil THEN rl.currentWindow ELSE @,
                      !.prev = IF @ = Nil THEN rl.previousWindow ELSE @]
           key == IF isByHost THEN remoteIP(r.RemoteAddr) ELSE r.Header
       IN  IF ~ isByHost /\ headerMissing(r.Header)
           THEN th' = [th EXCEPT ![g] =
                          [IdleThread EXCEPT !.pc = "done", !.nextCalled = TRUE]]
           ELSE th' = [th EXCEPT ![g] = [me EXCEPT !.pc = "add", !.key = key]]
    /\ UNCHANGED <<mu, now, rl, tr, main, sched, calls, admitted>>

\* requestShouldBlock: rl.currentWindow.addRequestFor(key)
RequestAdd(g) ==
    /\ th[g].pc = "add"
    /\ IF lockPanics(tr[th[g].cur])
       THEN /\ th' = [th EXCEPT ![g] = Panicked]
            /\ tr' = tr
       ELSE /\ tr' = [tr EXCEPT ![th[g].cur] = addRequestFor(@, th[g].key)]
            /\ th' = [th EXCEPT ![g].pc = "now"]
    /\ UNCHANGED <<mu, now, rl, main, sched, calls, admitted>>

\* getInterpolatedRequestCount: now := time.Now()
InterpolateNow(g) ==
    /\ th[g].pc = "now"
    /\ th' = [th EXCEPT ![g].pc = "current", ![g].nowRead = now]
    /\ UNCHANGED <<mu, now, rl, tr, main, sched, calls, admitted>>

\* requestCount += round(currentWindow.getRequestCountFor(key) * fraction)
InterpolateCurrent(g) ==
    /\ th[g].pc = "current"
    /\ LET t == tr[th[g].cur]
       IN  IF lockPanics(t)
           THEN th' = [th EXCEPT ![g] = Panicked]
           ELSE th' = [th EXCEPT
                         ![g].pc = "previous",
                         ![g].requestCount =
                             @ + currentWindowPart(getRequestCountFor(t, th[g].key),
                                                   th[g].nowRead - t.startTime,
                                                   windowDuration)]
    /\ UNCHANGED <<mu, now, rl, tr, main, sched, calls, admitted>>

\* The outcome of ServeHTTP once requestShouldBlock has returned: a blocked
\* request gets WriteHeader(429) and Write(nil), whose error is returned;
\* otherwise the handler returns next.ServeHTTP(w, r).
respond(requestCount, shouldBlock, writeFails) ==
    [IdleThread EXCEPT
        !.pc           = "done",
        !.requestCount = requestCount,
        !.shouldBlock  = shouldBlock,
        !.status       = IF shouldBlock THEN 429 ELSE 0,
        !.nextCalled   = ~ (shouldBlock /\ writeFails)]

\* requestCount += round(previousWindow.getRequestCountFor(key) * (1 - fraction)),
\* the comparison with MaxRequests, and the rest of ServeHTTP.
InterpolatePrevious(g, writeFails) ==
    /\ th[g].pc = "previous"
    /\ LET t == tr[th[g].prev]
           c == tr[th[g].cur]
           total == th[g].requestCount
                      + previousWindowPart(getRequestCountFor(t, th[g].key),
                                           th[g].nowRead - c.startTime,
                                           windowDuration)
           blocked == exceedsLimit(total, rl.MaxRequests)
       IN  IF lockPanics(t)
           THEN /\ th' = [th EXCEPT ![g] = Panicked]
                /\ admitted' = admitted
           ELSE /\ th' = [th EXCEPT ![g] = respond(total, blocked, writeFails)]
                /\ admitted' = IF blocked THEN admitted
                               ELSE [admitted EXCEPT ![th[g].key][1] = @ + 1]
    /\ UNCHANGED <<mu, now, rl, tr, main, sched, calls>>

Serve(g) ==
    \/ \E first \in {"currentWindow", "previousWindow"} : ServeHTTPCall(g, first)
    \/ \E r \in Requests : ServeHTTPKey(g, r)
    \/ RequestAdd(g)
    \/ InterpolateNow(g)
    \/ InterpolateCurrent(g)
    \/ \E writeFails \in BOOLEAN : InterpolatePrevious(g, writeFails)

-----------------------------------------------------------------------------

Next ==
    \/ Tick
    \/ ProvisionCall
    \/ ProvisionFinish
    \/ Scheduler
    \/ \E g \in Threads : Serve(g)

Spec == Init /\ [][Next]_vars

-----------------------------------------------------------------------------
(* The limiter driven call by call, as the package tests drive it: a      *)
(* provisioned limiter in a state drawn from bounded sets, one goroutine   *)
(* serving requests and one calling refreshWindows directly, the clock     *)
(* standing still.                                                         *)

\* A map holding count c for key k (no entry for a count of 0).
countMap(k, c) == IF c = 0 THEN <<>> ELSE MapSet(<<>>, k, c)

\* The current window started at 0; its predecessor is either the zero
\* value Provision installs or the tracker of the window before.
InitCalls ==
    /\ \E c \in CallConfigs, cur \in CountSamples, prev \in CountSamples,
          first \in BOOLEAN :
       \E e \in 0..(c.WindowLength + 1) :
         /\ rl = [ ByHeader       |-> c.ByHeader,
                   WindowLength   |-> c.WindowLength,
                   MaxRequests    |-> c.MaxRequests,
                   currentWindow  |-> 2,
                   previousWindow |-> 1 ]
         /\ now = e
         /\ tr = << IF first /\ prev = 0
                    THEN zeroRequestCountTracker
                    ELSE [newRequestCountTracker(c.WindowLength,
                                                 -c.WindowLength, -c.WindowLength)
                            EXCEPT !.requestCount =
                               MapSet(countMap(<<"a">>, prev), <<"b">>, OtherCount)],
                    [newRequestCountTracker(c.WindowLength, 0, 0)
                        EXCEPT !.requestCount = countMap(<<"a">>, cur)] >>
         /\ admitted = [k \in AllKeys |-> [i \in 1..c.WindowLength |-> 0]]
    /\ main = [pc |-> "done", t1 |-> 0]
    /\ sched = [pc |-> "none", wakeAt |-> 0, t1 |-> 0, didRefresh |-> FALSE]
    /\ th = [g \in Threads |-> IdleThread]
    /\ calls = 0
    /\ mu = Unlocked

\* A direct call of rl.refreshWindows() by the driver.
RefreshCall ==
    /\ sched.pc \in {"none", "sleep"}
    /\ sched' = [sched EXCEPT !.pc = "refresh"]
    /\ UNCHANGED <<mu, now, rl, tr, main, th, calls, admitted>>

NextCalls ==
    \/ Serve("g1")
    \/ RefreshCall
    \/ RefreshCheck
    \/ RefreshSwap
    \/ RefreshNewStart
    \/ RefreshNewEnd

SpecCalls == InitCalls /\ [][NextCalls]_vars

-----------------------------------------------------------------------------
(* The module as its host loads it: the struct is filled from the          *)
(* configuration, whatever it holds, then Provision is called and then     *)
(* Validate (the order in which Caddy calls a module's Provisioner and     *)
(* Validator); requests are served only once Validate has returned nil.    *)

\* What UnmarshalCaddyfile may have parsed: Atoi and ParseDuration accept
\* zero as they accept positive values.
LoadConfigs ==
    { [ByHeader |-> <<>>, WindowLength |-> w, MaxRequests |-> m] :
          w \in {0, 1, 2}, m \in {0, 1} }

\* Validate: rl.MaxRequests <= 0 || rl.WindowLength <= 0
validateFails == rl.MaxRequests <= 0 \/ rl.WindowLength <= 0

InitLoad ==
    /\ \E c \in LoadConfigs :
         /\ rl = [ ByHeader       |-> c.ByHeader,
                   WindowLength   |-> c.WindowLength,
                   MaxRequests    |-> c.MaxRequests,
                   currentWindow  |-> Nil,
                   previousWindow |-> Nil ]
         /\ admitted = [k \in AllKeys |-> [i \in 1..c.WindowLength |-> 0]]
    /\ now = 0
    /\ tr = <<>>
    /\ main = [pc |-> "start", t1 |-> 0]
    /\ sched = [pc |-> "none", wakeAt |-> 0, t1 |-> 0, didRefresh |-> FALSE]
    /\ th = [g \in Threads |-> IdleThread]
    /\ calls = 0
    /\ mu = Unlocked

\* Validate() on the provisioned module: an error makes the host drop the
\* configuration, nil lets it serve.
ValidateCall ==
    /\ main.pc = "done"
    /\ main' = [main EXCEPT !.pc = IF validateFails THEN "rejected" ELSE "serving"]
    /\ UNCHANGED <<now, rl, tr, sched, th, calls, admitted, mu>>

NextLoad ==
    \/ Tick
    \/ ProvisionCall
    \/ ProvisionFinish
    \/ ValidateCall
    \/ Scheduler

SpecLoad == InitLoad /\ [][NextLoad]_vars

-----------------------------------------------------------------------------
(* One tracker, its critical sections taken statement by statement: every  *)
(* goroutine calls addRequestFor (AddsEach times) and getRequestCountFor   *)
(* on tr[1], in any interleaving.  tr[2] is a copy of the tracker as it    *)
(* was before the calls and is never touched.                              *)

TrackerKeys == {<<"a">>, <<"b">>}

\* A goroutine between two calls: `done` counts its finished addRequestFor
\* calls per key, `result` is what its last getRequestCountFor returned.
TrackerIdle ==
    [ pc     |-> "idle",
      key    |-> NoKey,
      loaded |-> 0,
      done   |-> [k \in TrackerKeys |-> 0],
      reads  |-> 0,
      result |-> 0 ]

InitTracker ==
    /\ \E c \in Configs, n \in {0, 1} :
         /\ rl = [ ByHeader       |-> c.ByHeader,
                   WindowLength   |-> c.WindowLength,
                   MaxRequests    |-> c.MaxRequests,
                   currentWindow  |-> 1,
                   previousWindow |-> Nil ]
         /\ LET t == [newRequestCountTracker(c.WindowLength, 0, 0)
                        EXCEPT !.requestCount = countMap(<<"a">>, n)]
            IN  tr = <<t, t>>
         /\ admitted = [k \in AllKeys |-> [i \in 1..c.WindowLength |-> 0]]
    /\ now = 0
    /\ main = [pc |-> "done", t1 |-> 0]
    /\ sched = [pc |-> "none", wakeAt |-> 0, t1 |-> 0, didRefresh |-> FALSE]
    /\ th = [g \in Threads |-> TrackerIdle]
    /\ calls = 0
    /\ mu = Unlocked

\* addRequestFor: rct._mutex.Lock()
AddLock(g, k) ==
    /\ th[g].pc = "idle"
    /\ th[g].done[<<"a">>] + th[g].done[<<"b">>] < AddsEach
    /\ ~ lockPanics(tr[1])
    /\ canLock(mu)
    /\ mu' = [mu EXCEPT !.writer = g]
    /\ th' = [th EXCEPT ![g].pc = "load", ![g].key = k]
    /\ UNCHANGED <<now, rl, tr, main, sched, calls, admitted>>

\* rct.requestCount[key]++ : the read of the map
AddLoad(g) ==
    /\ th[g].pc = "load"
    /\ th' = [th EXCEPT ![g].pc = "store",
                        ![g].loaded = MapGet(tr[1].requestCount, th[g].key)]
    /\ UNCHANGED <<now, rl, tr, main, sched, calls, admitted, mu>>

\* rct.requestCount[key]++ : the write of the map
AddStore(g) ==
    /\ th[g].pc = "store"
    /\ tr' = [tr EXCEPT ![1].requestCount = MapSet(@, th[g].key, th[g].loaded + 1)]
    /\ th' = [th EXCEPT ![g].pc = "unlock", ![g].loaded = 0]
    /\ UNCHANGED <<now, rl, main, sched, calls, admitted, mu>>

\* rct._mutex.Unlock(), and the return
AddUnlock(g) ==
    /\ th[g].pc = "unlock"
    /\ mu' = [mu EXCEPT !.writer = "none"]
    /\ th' = [th EXCEPT ![g].pc = "idle", ![g].done[th[g].key] = @ + 1]
    /\ UNCHANGED <<now, rl, tr, main, sched, calls, admitted>>

\* getRequestCountFor: rct._mutex.RLock()
GetRLock(g, k) ==
    /\ th[g].pc = "idle"
    /\ ~ lockPanics(tr[1])
    /\ canRLock(mu)
    /\ mu' = [mu EXCEPT !.readers = @ \cup {g}]
    /\ th' = [th EXCEPT ![g].pc = "read", ![g].key = k]
    /\ UNCHANGED <<now, rl, tr, main, sched, calls, admitted>>

\* return rct.requestCount[key]
GetRead(g) ==
    /\ th[g].pc = "read"
    /\ th' = [th EXCEPT ![g].pc = "runlock",
                        ![g].result = MapGet(tr[1].requestCount, th[g].key)]
    /\ UNCHANGED <<now, rl, tr, main, sched, calls, admitted, mu>>

\* defer rct._mutex.RUnlock()
GetRUnlock(g) ==
    /\ th[g].pc = "runlock"
    /\ mu' = [mu EXCEPT !.readers = @ \ {g}]
    /\ th' = [th EXCEPT ![g].pc = "idle", ![g].reads = 1]
    /\ UNCHANGED <<now, rl, tr, main, sched, calls, admitted>>

TrackerCall(g) ==
    \/ \E k \in TrackerKeys : AddLock(g, k)
    \/ AddLoad(g)
    \/ AddStore(g)
    \/ AddUnlock(g)
    \/ \E k \in TrackerKeys : GetRLock(g, k)
    \/ GetRead(g)
    \/ GetRUnlock(g)

NextTracker == \E g \in Threads : TrackerCall(g)

SpecTracker == InitTracker /\ [][NextTracker]_vars

-----------------------------------------------------------------------------
(* Helpers of the properties *)

RECURSIVE SumSeq(_)
SumSeq(q) == IF q = <<>> THEN 0 ELSE Head(q) + SumSeq(Tail(q))

\* A request goroutine inside requestShouldBlock.
Deciding(g) == th[g].pc \in {"add", "now", "current", "previous"}

\* The (currentWindow, previousWindow) pairs the limiter holds between
\* rollovers: Provision allocates the pair (2, 1) and every rollover
\* appends one tracker to the heap, so they are the pairs (p + 1, p).
SettledPairs == {<<c, c - 1>> : c \in 2..Len(tr)}

\* r is n / d (d > 0) rounded to the nearest integer, a tie going away
\* from zero.
IsNearest(r, n, d) ==
    \/ 2 * Abs(r * d - n) < d
    \/ 2 * Abs(r * d - n) = d /\ Abs(r * d) > Abs(n)

Nearest(n, d) == CHOOSE r \in -(Abs(n) + 1)..(Abs(n) + 1) : IsNearest(r, n, d)

\* round(cur * f) + round(prev * (1 - f)) with f = elapsed / windowLength.
Blend(cur, prev, elapsed, windowLength) ==
    Nearest(cur * elapsed, windowLength)
        + Nearest(prev * (windowLength - elapsed), windowLength)

\* The blend of the counts that goroutine g's receiver copy points at, for
\* g's key, at the instant g read.
CallBlend(g) ==
    Blend(getRequestCountFor(tr[th[g].cur], th[g].key),
          getRequestCountFor(tr[th[g].prev], th[g].key),
          th[g].nowRead - tr[th[g].cur].startTime,
          windowDuration)

\* requestShouldBlock returns to ServeHTTP in this step.
Returns(g) == th[g].pc = "previous" /\ th'[g].pc = "done"

-----------------------------------------------------------------------------
(* C1 *)

\* C1 -- requestShouldBlock raises the count of its key in its current
\* window by one before anything else, and what it returns is true exactly
\* when the blend of the counts as they stand after that increment is
\* strictly greater than MaxRequests.
C1_BlocksIffEstimateExceedsMax ==
    [][ \A g \in Threads :
          /\ (th[g].pc = "add" /\ th'[g].pc # "add") =>
                /\ th'[g].pc = "now"
                /\ getRequestCountFor(tr'[th[g].cur], th[g].key) =
                      getRequestCountFor(tr[th[g].cur], th[g].key) + 1
          /\ Returns(g) =>
                (th'[g].shouldBlock <=> CallBlend(g) > rl.MaxRequests) ]_vars

\* A call whose estimate equals MaxRequests was let through.
C1_Witness ==
    \E g \in Threads :
        /\ th[g].pc = "done"
        /\ th[g].requestCount = rl.MaxRequests
        /\ rl.MaxRequests > 1
        /\ ~ th[g].shouldBlock
        /\ th[g].nextCalled

-----------------------------------------------------------------------------
(* C2 *)

\* C2 -- getInterpolatedRequestCount(key) = round(cur * f) + round(prev *
\* (1 - f)), f = (now - currentWindow.startTime) / WindowLength, each
\* product rounded on its own, a tie away from zero; with f = 1/2,
\* cur = 100 and prev = 50 it is 75.
C2_EstimateIsRoundedBlend ==
    [][ \A g \in Threads :
          Returns(g) =>
            /\ th'[g].requestCount = CallBlend(g)
            /\ ( /\ getRequestCountFor(tr[th[g].cur], th[g].key) = 100
                 /\ getRequestCountFor(tr[th[g].prev], th[g].key) = 50
                 /\ 2 * (th[g].nowRead - tr[th[g].cur].startTime) = windowDuration )
               => th'[g].requestCount = 75 ]_vars

\* The worked example: 100 in the current window, 50 in the previous one,
\* half of the window gone, and a call that computed 75.
C2_Witness ==
    /\ getRequestCountFor(tr[rl.currentWindow], <<"a">>) = 100
    /\ getRequestCountFor(tr[rl.previousWindow], <<"a">>) = 50
    /\ 2 * (now - tr[rl.currentWindow].startTime) = windowDuration
    /\ th["g1"].pc = "done"
    /\ th["g1"].requestCount = 75

-----------------------------------------------------------------------------
(* C3 *)

\* C3 -- after Provision a key that was never incremented reads 0 from the
\* current and from the initial previous window, and requestShouldBlock on
\* it completes normally in the first window: no request goroutine ever
\* dies inside requestShouldBlock.
C3_FirstWindowCallCompletes ==
    \A g \in Threads : th[g].pc # "panic"

-----------------------------------------------------------------------------
(* C4 *)

\* C4 -- a request that requestShouldBlock decided to block is answered
\* with 429 and never handed to the next handler.
C4_BlockedNeverReachesNext ==
    \A g \in Threads :
        (th[g].pc = "done" /\ th[g].shouldBlock) =>
            (th[g].status = 429 /\ ~ th[g].nextCalled)

-----------------------------------------------------------------------------
(* C5 *)

\* C5 -- per key, the calls requestShouldBlock lets through within any
\* WindowLength consecutive clock values number at most MaxRequests.
C5_AdmittedAtMostMaxRequests ==
    \A k \in AllKeys : SumSeq(admitted[k]) <= rl.MaxRequests

-----------------------------------------------------------------------------
(* C6 *)

\* C6 -- the step that completes a rollover returns didRefresh = true and
\* leaves previousWindow = the tracker that was current (counts intact) and
\* currentWindow = a new tracker with no counts, started no later than now,
\* whose endTime is its startTime + WindowLength.
C6_RolloverInstallsFreshWindow ==
    [][ RefreshNewEnd =>
          /\ sched'.didRefresh
          /\ rl'.previousWindow = rl.currentWindow
          /\ tr'[rl'.previousWindow] = tr[rl.currentWindow]
          /\ rl'.currentWindow \notin {rl.currentWindow, rl.previousWindow}
          /\ \A k \in AllKeys :
                getRequestCountFor(tr'[rl'.currentWindow], k) = 0
          /\ tr'[rl'.currentWindow].startTime <= now
          /\ tr'[rl'.currentWindow].endTime =
                tr'[rl'.currentWindow].startTime + windowDuration ]_vars

-----------------------------------------------------------------------------
(* C7 *)

\* C7 -- requestShouldBlock called at now >= currentWindow.endTime, while
\* the scheduler has not begun the swap, rolls the windows itself before it
\* increments: previousWindow becomes the old current, the new current
\* holds this call's increment only, and the estimate is computed at a
\* `now` inside the call's current window.
C7_DecideCatchesUp ==
    [][ \A g \in Threads :
          /\ ( /\ RequestAdd(g)
               /\ now >= tr[rl.currentWindow].endTime
               /\ sched.pc \in {"sleep", "sleeping", "refresh"} )
             => /\ rl'.previousWindow = rl.currentWindow
                /\ rl'.currentWindow # rl.currentWindow
                /\ \A k \in AllKeys :
                      getRequestCountFor(tr'[rl'.currentWindow], k) =
                          IF k = th[g].key THEN 1 ELSE 0
          /\ InterpolateNow(g)
             => /\ tr[th[g].cur].startTime <= th'[g].nowRead
                /\ th'[g].nowRead < tr[th[g].cur].endTime ]_vars

-----------------------------------------------------------------------------
(* C8 *)

\* C8 -- while the current window has not expired, refreshWindows returns
\* false and changes nothing; no step of a request changes the limiter's
\* two pointers or any tracker's startTime/endTime, and the only count it
\* changes is that of its key in its current window, which is the limiter's
\* current window as long as that window has not expired.
C8_UnexpiredWindowIsLeftAlone ==
    [][ /\ (RefreshCheck /\ now < tr[rl.currentWindow].endTime) =>
              /\ sched'.pc = "sleep"
              /\ ~ sched'.didRefresh
              /\ rl' = rl
              /\ tr' = tr
        /\ \A g \in Threads :
              Serve(g) =>
                /\ rl' = rl
                /\ Len(tr') = Len(tr)
                /\ \A t \in 1..Len(tr) :
                      /\ tr'[t].startTime = tr[t].startTime
                      /\ tr'[t].endTime = tr[t].endTime
                      /\ \A k \in AllKeys :
                            getRequestCountFor(tr'[t], k) =
                              getRequestCountFor(tr[t], k)
                                + IF th[g].pc = "add" /\ t = th[g].cur /\ k = th[g].key
                                  THEN 1 ELSE 0
                /\ (th[g].pc = "add" /\ now < tr[th[g].cur].endTime) =>
                      th[g].cur = rl.currentWindow ]_vars

\* refreshWindows has returned false on the unexpired window of the
\* initial state and a request has been counted in it.
C8_Witness ==
    /\ sched.pc = "sleep"
    /\ ~ sched.didRefresh
    /\ rl.currentWindow = 2
    /\ now < tr[rl.currentWindow].endTime
    /\ th["g1"].pc = "done"
    /\ calls > 0

-----------------------------------------------------------------------------
(* The limiter without traffic: only the clock and the goroutine of
   Provision run.  The first window holds what earlier requests left in it. *)

InitIdle ==
    /\ \E c \in Configs, n \in CountSamples :
         /\ rl = [ ByHeader       |-> c.ByHeader,
                   WindowLength   |-> c.WindowLength,
                   MaxRequests    |-> c.MaxRequests,
                   currentWindow  |-> 2,
                   previousWindow |-> 1 ]
         /\ tr = << zeroRequestCountTracker,
                    [newRequestCountTracker(c.WindowLength, 0, 0)
                       EXCEPT !.requestCount = countMap(<<"a">>, n)] >>
         /\ admitted = [k \in AllKeys |-> [i \in 1..c.WindowLength |-> 0]]
    /\ now = 0
    /\ main = [pc |-> "done", t1 |-> 0]
    /\ sched = [pc |-> "sleep", wakeAt |-> 0, t1 |-> 0, didRefresh |-> FALSE]
    /\ th = [g \in Threads |-> IdleThread]
    /\ calls = 0
    /\ mu = Unlocked

TickIdle == Advance(MaxTimeIdle)

NextIdle == TickIdle \/ Scheduler

\* The clock advances, and the Go scheduler runs a runnable goroutine.
SpecIdle == InitIdle /\ [][NextIdle]_vars /\ WF_vars(TickIdle) /\ WF_vars(Scheduler)

\* Every tracker the limiter can have allocated by MaxTimeIdle.
IdlePtrs == 2..(MaxTimeIdle + 2)

-----------------------------------------------------------------------------
(* C9 *)

\* C9 -- without traffic, whenever the clock has passed the endTime of the
\* current window, the goroutine of Provision eventually rolls over: that
\* window becomes the previous one with its counts as they were, a fresh
\* empty window becomes the current one, and the goroutine goes back to
\* sleep until the endTime of the new current window.
C9_SchedulerRollsAfterEachExpiry ==
    \A t \in IdlePtrs : \A n \in CountSamples :
        ( /\ rl.currentWindow = t
          /\ now > tr[t].endTime
          /\ getRequestCountFor(tr[t], <<"a">>) = n )
        ~> ( /\ rl.previousWindow = t
             /\ getRequestCountFor(tr[t], <<"a">>) = n
             /\ rl.currentWindow = t + 1
             /\ tr[t + 1].requestCount = <<>>
             /\ sched.pc = "sleeping"
             /\ sched.wakeAt = tr[t + 1].endTime )

\* The second rollover is done: the first window with its counts went to
\* previous and was then dropped, and the goroutine sleeps until the end of
\* the third window.
C9_Witness ==
    /\ calls = 0
    /\ Len(tr) = 4
    /\ getRequestCountFor(tr[2], <<"a">>) = 3
    /\ rl.previousWindow = 3
    /\ rl.currentWindow = 4
    /\ sched.pc = "sleeping"
    /\ sched.wakeAt = tr[4].endTime
    /\ sched.didRefresh

-----------------------------------------------------------------------------
(* C10 *)

\* C10 -- the (current, previous) pair a requestShouldBlock call works on
\* is a pair the limiter held before or after a rollover, never a
\* half-swapped one: the two are different trackers and belong together.
C10_DecideSeesSettledPair ==
    \A g \in Threads :
        Deciding(g) =>
            /\ th[g].cur # th[g].prev
            /\ <<th[g].cur, th[g].prev>> \in SettledPairs

-----------------------------------------------------------------------------
(* C11 *)

\* No goroutine of SpecTracker is inside a call.
TrackerQuiet == \A g \in Threads : th[g].pc = "idle"

\* The finished addRequestFor calls for key k, over the goroutines of set G.
RECURSIVE AddsDone(_, _)
AddsDone(G, k) ==
    IF G = {} THEN 0
    ELSE LET g == CHOOSE x \in G : TRUE
         IN  th[g].done[k] + AddsDone(G \ {g}, k)

\* C11 -- no lost updates: whenever no call is in progress, the tracker's
\* count of every key is what it was before the calls plus the number of
\* addRequestFor calls made for that key, whatever the interleaving of the
\* goroutines' increments and reads; N goroutines with M calls each on one
\* key leave it exactly N * M higher.
C11_NoLostUpdates ==
    TrackerQuiet =>
        \A k \in TrackerKeys :
            getRequestCountFor(tr[1], k) =
                getRequestCountFor(tr[2], k) + AddsDone(Threads, k)

\* Every goroutine has made all its AddsEach calls for key "a", with reads
\* in between, and the count is up by Cardinality(Threads) * AddsEach.
C11_Witness ==
    /\ TrackerQuiet
    /\ \A g \in Threads : th[g].done[<<"a">>] = AddsEach /\ th[g].reads = 1
    /\ getRequestCountFor(tr[1], <<"a">>) =
          getRequestCountFor(tr[2], <<"a">>) + Cardinality(Threads) * AddsEach

-----------------------------------------------------------------------------
(* C12 *)

\* C12 -- in header mode a request without the header (absent or empty) is
\* handed to the next handler without a status written, whatever the
\* counts are; requestShouldBlock is not entered and no tracker changes.
C12_HeaderlessRequestBypasses ==
    [][ \A g \in Threads : \A r \in Requests :
          (ServeHTTPKey(g, r) /\ ~ isByHost /\ Len(r.Header) = 0) =>
            /\ th'[g].pc = "done"
            /\ th'[g].nextCalled
            /\ ~ th'[g].shouldBlock
            /\ th'[g].status = 0
            /\ tr' = tr
            /\ rl' = rl ]_vars

\* The only call so far went to the next handler in header mode, although
\* both windows hold 100 requests under the client's address, 100 times
\* MaxRequests, and they still do.
C12_Witness ==
    /\ ~ isByHost
    /\ calls = 1
    /\ th["g1"].pc = "done"
    /\ th["g1"].nextCalled
    /\ ~ th["g1"].shouldBlock
    /\ getRequestCountFor(tr[rl.currentWindow], <<"a">>) = 100
    /\ getRequestCountFor(tr[rl.previousWindow], <<"a">>) = 100
    /\ rl.MaxRequests = 1

-----------------------------------------------------------------------------
(* C13 *)

\* C13 -- a configuration with WindowLength <= 0 or MaxRequests <= 0 is
\* rejected by Validate and never gets to serve, and a limiter holding it
\* is never started: it has no trackers and no goroutine of Provision.
C13_InvalidConfigNeverStarted ==
    (rl.WindowLength <= 0 \/ rl.MaxRequests <= 0) =>
        /\ main.pc # "serving"
        /\ rl.currentWindow = Nil
        /\ rl.previousWindow = Nil
        /\ tr = <<>>
        /\ sched.pc = "none"

-----------------------------------------------------------------------------
(* C14 *)

\* The time elapsed in the window of goroutine g's receiver copy at the
\* instant g read: the numerator of currentWindowFraction, whose
\* denominator is windowDuration.
Elapsed(g) == th[g].nowRead - tr[th[g].cur].startTime

\* C14 -- whenever a request computes the estimate, the weight of the
\* current window's count lies in [0, 1], and so does the weight of the
\* previous window's count, which is 1 minus it.
C14_WeightsWithinUnitInterval ==
    \A g \in Threads :
        th[g].pc \in {"current", "previous"} =>
            /\ 0 <= Elapsed(g)
            /\ Elapsed(g) <= windowDuration
            /\ 0 <= windowDuration - Elapsed(g)
            /\ windowDuration - Elapsed(g) <= windowDuration

-----------------------------------------------------------------------------
(* C15 *)

\* C15 -- the estimate getInterpolatedRequestCount returns is never
\* negative and never more than the key's counts in the two windows
\* together.
C15_EstimateWithinCounts ==
    [][ \A g \in Threads :
          Returns(g) =>
            /\ 0 <= th'[g].requestCount
            /\ th'[g].requestCount <=
                  getRequestCountFor(tr[th[g].cur], th[g].key)
                    + getRequestCountFor(tr[th[g].prev], th[g].key) ]_vars

-----------------------------------------------------------------------------
(* C16 *)

-----------------------------------------------------------------------------
(* C17 *)

\* C17 -- once a rollover has made a tracker the previous window (the
\* limiter's current window being its successor), the counts of that
\* tracker do not change any more.
C17_PreviousIsReadOnly ==
    [][ \A t \in 1..Len(tr) :
          (rl.previousWindow = t /\ rl.currentWindow # t) =>
              tr'[t].requestCount = tr[t].requestCount ]_vars

-----------------------------------------------------------------------------
(* C18 *)

\* C18 -- the swap runs at most once for an expiry: once Provision has set
\* the two windows, previousWindow changes only in the swap of a
\* refreshWindows whose current window has expired, to that window, which
\* was never the previous window before; currentWindow changes only at the
\* end of that refreshWindows, to a newly allocated tracker; a repeated
\* Provision changes neither.
C18_OneRolloverPerExpiry ==
    [][ rl.currentWindow # Nil =>
          /\ rl'.previousWindow # rl.previousWindow =>
                /\ sched.pc = "swap"
                /\ rl'.previousWindow = rl.currentWindow
                /\ rl.currentWindow > rl.previousWindow
                /\ tr[rl.currentWindow].endTime < now
                /\ rl'.currentWindow = rl.currentWindow
          /\ rl'.currentWindow # rl.currentWindow =>
                /\ sched.pc = "new2"
                /\ rl.previousWindow = rl.currentWindow
                /\ rl'.currentWindow = Len(tr) + 1
                /\ rl'.previousWindow = rl.previousWindow ]_vars

\* One window has expired and one rollover has run while requests were
\* served; refreshWindows was then called again, at the endTime of the new
\* window, and returned false without a second swap.
C18_Witness ==
    /\ Len(tr) = 3
    /\ rl.previousWindow = 2
    /\ rl.currentWindow = 3
    /\ tr[2].endTime < tr[3].startTime
    /\ now = tr[3].endTime
    /\ sched.pc = "sleep"
    /\ ~ sched.didRefresh
    /\ main.pc = "done"
    /\ calls > 0

-----------------------------------------------------------------------------
(* C19 *)

\* C19 -- refreshWindows rolls over exactly when now >= current.endTime:
\* called at the instant current.endTime it goes on to the swap (and
\* returns true), called before it returns false.
C19_RolloverAtEndTime ==
    [][ RefreshCheck =>
          IF now >= tr[rl.currentWindow].endTime
          THEN sched'.pc = "swap"
          ELSE sched'.pc = "sleep" /\ ~ sched'.didRefresh ]_vars

-----------------------------------------------------------------------------
(* C20 *)

\* C20 -- no count of any tracker ever decreases, so the count read for a
\* key from the limiter's current window decreases only in the step that
\* ends a rollover, where it drops to 0 in the new current window.
C20_CurrentCountMonotone ==
    [][ /\ \A t \in 1..Len(tr) : \A k \in AllKeys :
              getRequestCountFor(tr'[t], k) >= getRequestCountFor(tr[t], k)
        /\ \A k \in AllKeys :
              getRequestCountFor(tr'[rl'.currentWindow], k)
                  < getRequestCountFor(tr[rl.currentWindow], k) =>
                /\ RefreshNewEnd
                /\ rl'.currentWindow # rl.currentWindow
                /\ getRequestCountFor(tr'[rl'.currentWindow], k) = 0 ]_vars

\* Key "a" was counted up from 100 to 101 in the current window, then a
\* rollover made that window the previous one and the count read from the
\* new current window is 0.
C20_Witness ==
    /\ Len(tr) = 3
    /\ rl.currentWindow = 3
    /\ rl.previousWindow = 2
    /\ getRequestCountFor(tr[2], <<"a">>) = 101
    /\ getRequestCountFor(tr[3], <<"a">>) = 0
    /\ sched.didRefresh

-----------------------------------------------------------------------------
(* The limiter with the critical sections of its trackers taken statement  *)
(* by statement: requests of two goroutines, the clock and the goroutine   *)
(* of Provision, from a provisioned limiter in its first window (previous  *)
(* is the zero value) or in a later one.  Here mu holds one mutex state    *)
(* per tracker pointer.                                                    *)

\* The clock of this specification stops at MaxTimeLocks.
MaxTimeLocks == 2

TickLocks == Advance(MaxTimeLocks)

\* Every pointer the heap can hold by MaxTimeLocks.
LockPtrs == 1..(MaxTimeLocks + 2)

\* The configurations whose first window ends before the clock stops.
LockConfigs == {c \in Configs : c.WindowLength = 1}

InitLocks ==
    /\ \E c \in LockConfigs, first \in BOOLEAN :
         /\ rl = [ ByHeader       |-> c.ByHeader,
                   WindowLength   |-> c.WindowLength,
                   MaxRequests    |-> c.MaxRequests,
                   currentWindow  |-> 2,
                   previousWindow |-> 1 ]
         /\ tr = << IF first
                    THEN zeroRequestCountTracker
                    ELSE newRequestCountTracker(c.WindowLength,
                                                -c.WindowLength, -c.WindowLength),
                    newRequestCountTracker(c.WindowLength, 0, 0) >>
         /\ admitted = [k \in AllKeys |-> [i \in 1..c.WindowLength |-> 0]]
    /\ now = 0
    /\ main = [pc |-> "done", t1 |-> 0]
    /\ sched = [pc |-> "sleep", wakeAt |-> 0, t1 |-> 0, didRefresh |-> FALSE]
    /\ th = [g \in Threads |-> IdleThread]
    /\ calls = 0
    /\ mu = [p \in LockPtrs |-> Unlocked]

\* addRequestFor: rct._mutex.Lock()
IncrementLock(g) ==
    /\ th[g].pc = "add"
    /\ IF lockPanics(tr[th[g].cur])
       THEN th' = [th EXCEPT ![g] = Panicked] /\ mu' = mu
       ELSE /\ canLock(mu[th[g].cur])
            /\ mu' = [mu EXCEPT ![th[g].cur].writer = g]
            /\ th' = [th EXCEPT ![g].pc = "incr"]
    /\ UNCHANGED <<now, rl, tr, main, sched, calls, admitted>>

\* rct.requestCount[key]++
Increment(g) ==
    /\ th[g].pc = "incr"
    /\ tr' = [tr EXCEPT ![th[g].cur] = addRequestFor(@, th[g].key)]
    /\ th' = [th EXCEPT ![g].pc = "unlock"]
    /\ UNCHANGED <<now, rl, main, sched, calls, admitted, mu>>

\* rct._mutex.Unlock()
IncrementUnlock(g) ==
    /\ th[g].pc = "unlock"
    /\ mu' = [mu EXCEPT ![th[g].cur] = afterUnlock(@)]
    /\ th' = [th EXCEPT ![g].pc = "now"]
    /\ UNCHANGED <<now, rl, tr, main, sched, calls, admitted>>

\* rl.currentWindow.getRequestCountFor(key): rct._mutex.RLock()
CurrentRLock(g) ==
    /\ th[g].pc = "current"
    /\ IF lockPanics(tr[th[g].cur])
       THEN th' = [th EXCEPT ![g] = Panicked] /\ mu' = mu
       ELSE /\ canRLock(mu[th[g].cur])
            /\ mu' = [mu EXCEPT ![th[g].cur].readers = @ \cup {g}]
            /\ th' = [th EXCEPT ![g].pc = "curread"]
    /\ UNCHANGED <<now, rl, tr, main, sched, calls, admitted>>

\* return rct.requestCount[key], weighted into requestCount once returned
CurrentRead(g) ==
    /\ th[g].pc = "curread"
    /\ LET t == tr[th[g].cur]
       IN  th' = [th EXCEPT
                    ![g].pc = "currunlock",
                    ![g].requestCount =
                        @ + currentWindowPart(getRequestCountFor(t, th[g].key),
                                              th[g].nowRead - t.startTime,
                                              windowDuration)]
    /\ UNCHANGED <<now, rl, tr, main, sched, calls, admitted, mu>>

\* defer rct._mutex.RUnlock()
CurrentRUnlock(g) ==
    /\ th[g].pc = "currunlock"
    /\ mu' = [mu EXCEPT ![th[g].cur].readers = @ \ {g}]
    /\ th' = [th EXCEPT ![g].pc = "previous"]
    /\ UNCHANGED <<now, rl, tr, main, sched, calls, admitted>>

\* rl.previousWindow.getRequestCountFor(key): rct._mutex.RLock()
PreviousRLock(g) ==
    /\ th[g].pc = "previous"
    /\ IF lockPanics(tr[th[g].prev])
       THEN th' = [th EXCEPT ![g] = Panicked] /\ mu' = mu
       ELSE /\ canRLock(mu[th[g].prev])
            /\ mu' = [mu EXCEPT ![th[g].prev].readers = @ \cup {g}]
            /\ th' = [th EXCEPT ![g].pc = "prevread"]
    /\ UNCHANGED <<now, rl, tr, main, sched, calls, admitted>>

\* return rct.requestCount[key], weighted into requestCount once returned
PreviousRead(g) ==
    /\ th[g].pc = "prevread"
    /\ th' = [th EXCEPT
                 ![g].pc = "prevrunlock",
                 ![g].requestCount =
                     @ + previousWindowPart(
                             getRequestCountFor(tr[th[g].prev], th[g].key),
                             th[g].nowRead - tr[th[g].cur].startTime,
                             windowDuration)]
    /\ UNCHANGED <<now, rl, tr, main, sched, calls, admitted, mu>>

\* defer rct._mutex.RUnlock(), the comparison with MaxRequests, and the
\* rest of ServeHTTP.
PreviousRUnlock(g, writeFails) ==
    /\ th[g].pc = "prevrunlock"
    /\ mu' = [mu EXCEPT ![th[g].prev].readers = @ \ {g}]
    /\ LET blocked == exceedsLimit(th[g].requestCount, rl.MaxRequests)
       IN  /\ th' = [th EXCEPT ![g] = respond(th[g].requestCount, blocked, writeFails)]
           /\ admitted' = IF blocked THEN admitted
                          ELSE [admitted EXCEPT ![th[g].key][1] = @ + 1]
    /\ UNCHANGED <<now, rl, tr, main, sched, calls>>

\* The steps of requestShouldBlock.
Decide(g) ==
    \/ IncrementLock(g)
    \/ Increment(g)
    \/ IncrementUnlock(g)
    \/ InterpolateNow(g)
    \/ CurrentRLock(g)
    \/ CurrentRead(g)
    \/ CurrentRUnlock(g)
    \/ PreviousRLock(g)
    \/ PreviousRead(g)
    \/ \E writeFails \in BOOLEAN : PreviousRUnlock(g, writeFails)

\* net/http serves each request on a goroutine of its own.
NextLocks ==
    \/ TickLocks
    \/ Scheduler
    \/ \E g \in Threads :
          \/ /\ th[g].pc = "idle"
             /\ \E first \in {"currentWindow", "previousWindow"} : ServeHTTPCall(g, first)
          \/ \E r \in Requests : ServeHTTPKey(g, r)
          \/ Decide(g)

\* The Go scheduler runs a runnable goroutine, and a goroutine blocked in
\* Lock or RLock gets the mutex once it is free.
SpecLocks ==
    InitLocks /\ [][NextLocks]_vars /\ \A g \in Threads : WF_vars(Decide(g))

-----------------------------------------------------------------------------
(* C21 *)

\* The mutexes goroutine g holds: the tracker and the mode.
HeldBy(g) ==
    {<<p, "w">> : p \in {q \in LockPtrs : mu[q].writer = g}}
        \cup {<<p, "r">> : p \in {q \in LockPtrs : g \in mu[q].readers}}

\* The mutexes the code of goroutine g has locked and not yet unlocked at
\* its position.
LockedAt(g) ==
    CASE th[g].pc \in {"incr", "unlock"}          -> {<<th[g].cur, "w">>}
      [] th[g].pc \in {"curread", "currunlock"}   -> {<<th[g].cur, "r">>}
      [] th[g].pc \in {"prevread", "prevrunlock"} -> {<<th[g].prev, "r">>}
      [] OTHER                                    -> {}

\* Goroutine g is inside requestShouldBlock.
InDecide(g) ==
    th[g].pc \in {"add", "incr", "unlock", "now", "current", "curread",
                  "currunlock", "previous", "prevread", "prevrunlock"}

\* C21 -- a goroutine holds a tracker mutex only between a Lock/RLock and
\* the matching unlock of one increment or one read: never two at once,
\* never while it waits for a mutex, never after the call; the goroutine
\* of Provision never holds one; and every requestShouldBlock call comes
\* to its end, whatever the other requests and the rollover do.
C21_DecideTerminates ==
    /\ [](\A g \in Threads : HeldBy(g) = LockedAt(g))
    /\ [](\A p \in LockPtrs :
            /\ mu[p].writer \in Threads \cup {"none"}
            /\ mu[p].readers \subseteq Threads
            /\ mu[p].writer # "none" => mu[p].readers = {})
    /\ \A g \in Threads : InDecide(g) ~> ~ InDecide(g)

\* Both goroutines were inside requestShouldBlock for the same key of the
\* same window, and both calls have returned with all mutexes free, a
\* rollover having run in between.
C21_Witness ==
    /\ \A g \in Threads : th[g].pc = "done" /\ th[g].requestCount > 0
    /\ calls = 2
    /\ Len(tr) = 3
    /\ \A p \in LockPtrs : mu[p] = Unlocked
    /\ \E k \in AllKeys : getRequestCountFor(tr[2], k) = 2

-----------------------------------------------------------------------------
(* C22 *)

\* Goroutine g executes the addRequestFor of its requestShouldBlock call.
Counts(g) == th[g].pc = "add" /\ th'[g].pc = "now"

\* C22 -- every requestShouldBlock call, before it decides anything, raises
\* by exactly one the count of its key in the window that is the limiter's
\* current one at that moment, and between rollovers nothing else changes a
\* count of the current window: the current count of a key is the number
\* of calls made for it in that window, blocked ones included.
C22_EveryCallCounted ==
    [][ /\ \A g \in Threads :
              Counts(g) =>
                /\ th[g].cur = rl.currentWindow
                /\ getRequestCountFor(tr'[rl.currentWindow], th[g].key)
                     = getRequestCountFor(tr[rl.currentWindow], th[g].key) + 1
        /\ \A k \in AllKeys :
              ( /\ rl.currentWindow # Nil
                /\ rl'.currentWindow = rl.currentWindow
                /\ getRequestCountFor(tr'[rl.currentWindow], k)
                     # getRequestCountFor(tr[rl.currentWindow], k) ) =>
                \E g \in Threads : Counts(g) /\ th[g].key = k ]_vars

-----------------------------------------------------------------------------
(* The limiter after a silence: the first window holds what earlier        *)
(* requests left in it, the clock and the goroutine of Provision run, and  *)
(* requests come in on one goroutine.                                      *)

NextSilence == TickIdle \/ Scheduler \/ Serve("g1")

SpecSilence == InitIdle /\ [][NextSilence]_vars

-----------------------------------------------------------------------------
(* C23 *)

\* Goroutine g works on the limiter's two windows, both installed by a
\* rollover (Provision installed trackers 1 and 2), and its own request is
\* the only one its key has in them.
AfterSilence(g) ==
    /\ th[g].cur = rl.currentWindow
    /\ th[g].prev = rl.previousWindow
    /\ th[g].cur >= 4
    /\ th[g].prev = th[g].cur - 1
    /\ getRequestCountFor(tr[th[g].cur], th[g].key) = 1
    /\ getRequestCountFor(tr[th[g].prev], th[g].key) = 0

\* C23 -- after two consecutive rollovers without a request for a key, the
\* next requestShouldBlock call for it returns false whenever MaxRequests
\* is at least 1, whatever the key had counted before.
C23_SilentKeyIsAdmitted ==
    [][ \A g \in Threads :
            Returns(g) /\ AfterSilence(g) /\ rl.MaxRequests >= 1 =>
                ~ th'[g].shouldBlock ]_vars

-----------------------------------------------------------------------------
(* C24 *)

\* C24 -- on a provisioned limiter a Provision call changes nothing: both
\* window pointers, every tracker and its counts, and the goroutine of
\* Provision are as before the call; the statements that install the
\* windows and start the goroutine run only while currentWindow is nil, so
\* the goroutine is started once and is never started again.
C24_ProvisionIdempotent ==
    [][ /\ rl.currentWindow # Nil =>
              /\ ProvisionCall => UNCHANGED vars
              /\ ~ ProvisionFinish
              /\ main'.pc = "done"
              /\ sched.pc # "none" /\ sched'.pc # "none"
        /\ ProvisionFinish =>
              /\ rl.currentWindow = Nil
              /\ tr = <<>>
              /\ sched.pc = "none" ]_vars

\* A provisioned limiter whose goroutine sleeps in its second window, with
\* counted requests in both windows, at a point where Provision may be
\* called again (the call returns at once and leaves this very state).
C24_Witness ==
    /\ main.pc = "done"
    /\ ~ notProvisioned(rl.currentWindow)
    /\ rl.currentWindow = 3
    /\ rl.previousWindow = 2
    /\ sched.pc = "sleeping"
    /\ \E k \in AllKeys :
          /\ getRequestCountFor(tr[2], k) > 0
          /\ getRequestCountFor(tr[3], k) > 0

=============================================================================
